---- MODULE Spec2Model ----
(***************************************************************************)
(* The https downloader of Vita3K (namespace https): download_file and the  *)
(* helpers it calls (init, get_web_response, get_content_md5,               *)
(* get_file_size, calculate_md5_file), as one state machine.  One           *)
(* invocation of download_file walks pc through                             *)
(*   head -> head_recv -> [head -> head_recv] -> meta -> get_init -> skip   *)
(*        -> loop -> verify -> returned                                     *)
(* The remote server, the TLS read primitive, the progress callback and the *)
(* disk are the environment: their answers are chosen with \E.              *)
(*                                                                         *)
(* File contents are sequences of items: body byte number i of the          *)
(* resource is the item i, a run of j bytes of a response header is the     *)
(* single item 0 - j, and a run of bytes that the stream never delivered    *)
(* (out-of-bounds buffer memory) is the item 0.                             *)
(*                                                                         *)
(* TLC's integers are 32 bits wide, so the two unsigned counters that can   *)
(* hold static_cast<uint32_t>(-1) = 2^32 - 1 (bytes_read and                *)
(* downloaded_file_size) are kept as [e, n], standing for                   *)
(* e * (2^32 - 1) + n: n is the sum of the byte counts of the successful    *)
(* reads, e the number of failed reads whose -1 was stored as 2^32 - 1.     *)
(* Every length and size they are compared with is below 2^32 - 1.          *)
(***************************************************************************)
EXTENDS Integers, Sequences, FiniteSets, TLC

\* ---------------------------------------------------------------- bounds
\* Largest resource (body) length the server holds.
MaxBody == 2
\* Length of the HEAD response (response.length()).
HeadLen == 100
\* Abstract digests are 0 .. DigestMod-1.
DigestMod == 5
\* Failed SSL_read calls per behaviour.
MaxReadErrors == 1
\* A read returns at most this many bytes fewer than it could.
MaxShort == 2
\* The header of the GET response differs from header_size by at most this.
HdrSlack == 1

\* ------------------------------------------------------ program constants
\* length of the literal "HTTP/1.1 404 Not Found"
MarkerLen == 22
\* the literal 13 added to the header estimate
StatusLineDiff == 13
\* length of "\r\nContent-Range: bytes " + "-" + "/" + "\r\n"
ContentRangeFixed == 27

Min(a, b) == IF a < b THEN a ELSE b
Digests == 0 .. (DigestMod - 1)

VARIABLES
    pc,                 \* position inside download_file
    again,              \* TRUE iff a further invocation may follow this one
    probe,              \* 1 = initial HEAD probe, 2 = re-probe after a redirect
    url,                \* std::string url (overwritten on redirect)
    response,           \* std::string response (parsed view of the HEAD response)
    content_md5,        \* const auto content_md5
    file_size,          \* const auto file_size
    downloaded_file_size,
    initial_downloaded_file_size,
    header_size,
    bytes_read,
    read_buffer,        \* std::vector<char> read_buffer: the bytes at its start
    progress_state,     \* ProgressState progress_state
    progress_callback,  \* TRUE iff a callback was supplied
    result,             \* value returned by the last finished invocation
    sessions,           \* the Https sessions init returned in this invocation
    file_exists,        \* the output file on disk
    file_data,
    body_len,           \* the resource held by the server: bytes 1 .. body_len
    srv_hdr,            \* header bytes of the GET response not yet read
    srv_pos,            \* body bytes of the resource already read or skipped
    srv_404,            \* the GET response is a 404
    requests,           \* requests sent in this invocation
    read_errors,        \* failed SSL_read calls so far
    hist,               \* history of this invocation (for the properties)
    decoder,            \* get_content_md5 at work on one Content-MD5 value
    estimate            \* the header_size computation on one set of operands

vars == <<pc, again, probe, url, response, content_md5, file_size,
          downloaded_file_size, initial_downloaded_file_size, header_size,
          bytes_read, read_buffer, progress_state, progress_callback, result,
          sessions,
          file_exists, file_data, body_len, srv_hdr, srv_pos, srv_404,
          requests, read_errors, hist, decoder, estimate>>

\* ------------------------------------------------------------- responses
\* An empty std::string response.
EmptyResponse ==
    [status |-> 0, loc |-> FALSE, md5 |-> [kind |-> "absent", d |-> 0],
     cl |-> [kind |-> "absent", n |-> 0], len |-> 0]

\* The Content-MD5 and Content-Length headers of a response.
NoMd5 == [kind |-> "absent", d |-> 0]
NoCl == [kind |-> "absent", n |-> 0]

\* ---------------------------------------------------------- pure helpers
RECURSIVE Digits(_)
\* std::to_string(n).length()
Digits(n) == IF n < 10 THEN 1 ELSE 1 + Digits(n \div 10)

\* Bytes an item stands for (a run of foreign bytes counts as one).
ItemSize(x) == IF x < 0 THEN 0 - x ELSE 1

RECURSIVE Size(_)
\* Size in bytes of a file content.
Size(s) == IF s = <<>> THEN 0 ELSE ItemSize(s[1]) + Size(Tail(s))

\* a followed by b, adjacent header runs merged.
Cat(a, b) ==
    IF a # <<>> /\ b # <<>> /\ a[Len(a)] < 0 /\ b[1] < 0
    THEN SubSeq(a, 1, Len(a) - 1) \o <<a[Len(a)] + b[1]>> \o Tail(b)
    ELSE a \o b

RECURSIVE Md5(_)
\* MD5_Init / MD5_Update / MD5_Final over the bytes of a file
Md5(s) ==
    IF s = <<>> THEN 1
    ELSE (7 * Md5(SubSeq(s, 1, Len(s) - 1)) + (s[Len(s)] % DigestMod) + 2)
            % DigestMod

\* convert_md5_bytes_to_str: the digest rendered as a non-empty string
convert_md5_bytes_to_str(d) == <<d>>

\* A 404 check that never finds the status line.
Has404_Never(r) == FALSE

\* response.find("HTTP/1.1 404 Not Found") != npos
Has404(r) == r.status = 404

\* response.find("HTTP/1.1 302 Found") != npos
Has302(r) == r.status = 302

\* regex_search(response, "Location: (https?://[^\\s]+)")
HasLocation(r) == r.loc

\* get_file_size with a default of one byte for a length it cannot extract.
get_file_size_Default(header) ==
    IF header.cl.kind = "value" THEN header.cl.n ELSE 1

\* get_file_size
get_file_size(header) ==
    IF header.cl.kind = "value" THEN header.cl.n ELSE 0

\* get_content_md5 with a default digest for a header it cannot decode.
get_content_md5_Default(header) ==
    IF header.md5.kind = "valid"
    THEN convert_md5_bytes_to_str(header.md5.d)
    ELSE convert_md5_bytes_to_str(0)

\* get_content_md5: empty when the header is absent or holds a character
\* outside the base64 alphabet, else the decoded digest rendered as a string.
get_content_md5(header) ==
    IF header.md5.kind = "valid"
    THEN convert_md5_bytes_to_str(header.md5.d)
    ELSE <<>>

\* calculate_md5_file
calculate_md5_file(exists, data) ==
    IF ~exists THEN <<>> ELSE convert_md5_bytes_to_str(Md5(data))

\* An unsigned counter holding n (below 2^32 - 1).
Val(n) == [e |-> 0, n |-> n]

\* The value SSL_read's -1 takes in an unsigned counter: 2^32 - 1.
ErrVal == [e |-> 1, n |-> 0]

\* a + b on the counters
Plus(a, b) == [e |-> a.e + b.e, n |-> a.n + b.n]

\* a < x * 0.99, x a length below 2^32 - 1
Below99(a, x) == a.e = 0 /\ 100 * a.n < 99 * x

\* bytes_read < (header_size * 0.99f)
HeaderShort(br, hs) == Below99(br, hs)

\* downloaded_file_size < (file_size * 0.99)
SizeShort(dl, fs) == Below99(dl, fs)

\* header_size as computed after init(url, "GET", downloaded_file_size);
\* dl is the size of the output file (below 2^32 - 1).  The size_t
\* subtraction may wrap, the sum wraps back: the result is the integer sum.
HeaderEstimate(resp_len, dl, fs) ==
    IF dl > 0
    THEN resp_len + StatusLineDiff
            + (ContentRangeFixed + Digits(dl) + 2 * Digits(fs))
            - (Digits(fs) - Digits(dl))
    ELSE resp_len

\* ProgressState progress_state{}
DefaultProgressState == [download |-> TRUE, pause |-> FALSE]

ProgressStates == [download : BOOLEAN, pause : BOOLEAN]

\* A pause flag that is never seen.
Paused_Never(ps) == FALSE

\* if (!progress_state.pause) ... else ...
Paused(ps) == ps.pause

\* A loop condition that ignores the download flag.
LoopCond_IgnoreStop(ps, br) == br # Val(0)

\* while (progress_state.download && bytes_read)
LoopCond(ps, br) == ps.download /\ br # Val(0)

\* --------------------------------------------------------------- sessions
\* The calls of init() that can fail, in the order of the code, by the line
\* of the test: SSL_CTX_new, socket, getaddrinfo, connect, getsockopt, the
\* SO_ERROR value, SSL_new, SSL_connect, SSL_write.
InitSteps ==
    <<"ctx", "socket", "resolve", "connect", "sockopt", "so_error",
      "ssl_new", "handshake", "send">>

\* The position of step f in init(); "none" (no failure) comes after all.
StepNo(f) ==
    IF \E i \in 1 .. Len(InitSteps) : InitSteps[i] = f
    THEN CHOOSE i \in 1 .. Len(InitSteps) : InitSteps[i] = f
    ELSE Len(InitSteps) + 1

\* The resources init() holds when step f fails: what the steps before f
\* acquired (the SSL context, the socket, the address list, the SSL object).
Acquired(f) ==
    {r \in {"ctx", "socket", "addrinfo", "ssl"} :
        \/ r = "ctx" /\ StepNo(f) > StepNo("ctx")
        \/ r = "socket" /\ StepNo(f) > StepNo("socket")
        \/ r = "addrinfo" /\ StepNo(f) > StepNo("resolve")
        \/ r = "ssl" /\ StepNo(f) > StepNo("ssl_new")}

\* A handshake failure branch that forgets close_socket.
Released_HandshakeKeepsSocket(f) ==
    IF f = "ctx" THEN {}
    ELSE IF f = "socket" THEN {"ctx"}
    ELSE IF f = "resolve" THEN {"ctx", "socket"}
    ELSE IF f \in {"connect", "sockopt", "so_error"}
    THEN {"addrinfo", "ctx", "socket"}
    ELSE IF f = "handshake" THEN {"addrinfo", "ctx", "ssl"}
    ELSE IF f = "send" THEN {"addrinfo", "ctx", "ssl", "socket"}
    ELSE {"addrinfo", "ctx"}

\* What the branch taken when step f fails releases before `return {}`
\* (SSL_CTX_free, close_socket, freeaddrinfo, close_ssl), and what the
\* successful path releases before `return https`.
Released(f) ==
    IF f = "ctx" THEN {}
    ELSE IF f = "socket" THEN {"ctx"}
    ELSE IF f = "resolve" THEN {"ctx", "socket"}
    ELSE IF f \in {"connect", "sockopt", "so_error"}
    THEN {"addrinfo", "ctx", "socket"}
    ELSE IF f \in {"handshake", "send"}
    THEN {"addrinfo", "ctx", "ssl", "socket"}
    ELSE {"addrinfo", "ctx"}

\* init(url, method, downloaded_file_size) with step f failing ("none": no
\* step fails): whether an Https with a non-null ssl is returned, the
\* resources still held at the return, and how far the set-up got.  SSL_new's
\* result is not tested: a null SSL object is handed to SSL_set_fd and
\* SSL_connect.
init(f) ==
    [fail |-> f,
     session |-> f = "none",
     held |-> Acquired(f) \ Released(f),
     connected |-> StepNo(f) > StepNo("so_error"),
     handshaken |-> StepNo(f) > StepNo("handshake"),
     sent |-> StepNo(f) > StepNo("send"),
     null_deref |-> f = "ssl_new"]

\* No call of init() was made yet.
NoInit ==
    [fail |-> "not_called", session |-> FALSE, held |-> {},
     connected |-> FALSE, handshaken |-> FALSE, sent |-> FALSE,
     null_deref |-> FALSE]

\* The ways init() returns: no failure, or a failure its code tests for.
InitReturns ==
    ({"none"} \cup {InitSteps[i] : i \in 1 .. Len(InitSteps)}) \ {"ssl_new"}

\* init() returned a session: it is appended, open.
OpenSession(ss, method) == Append(ss, [method |-> method, open |-> TRUE, closes |-> 0])

\* A teardown that leaves the session open.
CloseSession_Skipped(ss) == ss

\* close_ssl(https.ssl); close_socket(https.sockfd); on the latest session
CloseSession(ss) ==
    [ss EXCEPT ![Len(ss)] = [@ EXCEPT !.open = FALSE, !.closes = @ + 1]]

\* -------------------------------------------------------------- the stream
\* The next k bytes of the GET response: header bytes, then body bytes.
StreamChunk(k) ==
    LET h == Min(k, srv_hdr)
    IN  (IF h > 0 THEN <<0 - h>> ELSE <<>>)
            \o [i \in 1 .. (k - h) |-> srv_pos + i]

StreamAvail == srv_hdr + (body_len - srv_pos)

\* Byte counts one SSL_read(ssl, buf, n) can return when avail bytes remain.
ReadSizes(n, avail) ==
    {k \in 1 .. Min(n, avail) : k >= Min(n, avail) - MaxShort}

\* The stream after k bytes were read.
Consume(k) ==
    /\ srv_hdr' = IF k <= srv_hdr THEN srv_hdr - k ELSE 0
    /\ srv_pos' = IF k <= srv_hdr THEN srv_pos ELSE srv_pos + (k - srv_hdr)

\* The resource held by the server.
Body == [i \in 1 .. body_len |-> i]

\* Content-MD5 headers a server can send for the resource: none, one with a
\* character outside the base64 alphabet, the digest of the resource, or
\* another digest.
Md5Headers ==
    {[kind |-> k, d |-> 0] : k \in {"absent", "invalid"}}
        \cup {[kind |-> "valid", d |-> d] :
                d \in {Md5(Body), (Md5(Body) + 1) % DigestMod}}

\* Content-Length headers a server can send for the resource.
ClHeaders ==
    {[kind |-> k, n |-> 0] : k \in {"absent", "nonnumeric"}}
        \cup {[kind |-> "value", n |-> n] : n \in {0, body_len}}

\* What a server can answer to HEAD: 404, 302 with or without a Location,
\* 200 with its headers, or nothing at all.
Responses ==
    {[status |-> 302, loc |-> l, md5 |-> NoMd5, cl |-> NoCl, len |-> HeadLen] :
        l \in BOOLEAN}
    \cup {[status |-> s, loc |-> FALSE, md5 |-> m, cl |-> c, len |-> HeadLen] :
            s \in {200, 404}, m \in Md5Headers, c \in ClHeaders}
    \cup {EmptyResponse}

\* History of one invocation, read by the properties only.
NoHist == [file0_exists |-> FALSE, file0_data |-> <<>>,
           written |-> <<>>,      \* bytes handed to outfile.write
           delivered |-> <<>>,    \* bytes the body-stream loop's reads returned
           cb_stop |-> FALSE,     \* a callback answered download = false
           cb_pause |-> FALSE,    \* a callback answered pause = true
           resumed |-> FALSE,     \* a callback cleared pause during the loop
           eos |-> FALSE,         \* the GET stream reported end-of-stream
           read_failed |-> "no",  \* where an SSL_read failed
           probe404 |-> FALSE,    \* a HEAD probe was answered with 404
           redir |-> "none",      \* the initial probe: 302 with / without Location
           meta |-> FALSE,        \* the metadata was extracted from response
           resp_probe |-> 0,      \* the probe that response is the answer to
           outfile |-> FALSE,     \* the output file was opened for appending
           exit |-> "none",       \* why the loop was left: "stop", "eos", "both"
           outfile_open |-> FALSE,    \* outfile is open
           ticks |-> FALSE,           \* the callback was invoked inside the loop
           resets |-> 0,              \* invocations progress_callback(0, 0)
           reset_closed |-> FALSE,    \* ... made with outfile and session closed
           tick_after_reset |-> FALSE,  \* a loop invocation after that one
           progress_percent |-> [e |-> 0, n |-> 0],
                                  \* float progress_percent, as the counter value
                                  \* it was computed from (percent of file_size)
           iter_calls |-> 0,          \* callback invocations made inside the
                                      \* loop by the latest iteration
           init |-> NoInit,           \* what the latest call of init() left
           cb_last |-> "none",        \* the callback invocation the latest
                                      \* step made: "loop" (line 492),
                                      \* "pause" (483), "reset" (498)
           start_time |-> "none",     \* the assignment that set start_time
                                      \* last: "open" (line 447), "pause" (481)
           first_read_written |-> FALSE,
                                  \* bytes of the header skip's read were
                                  \* handed to outfile.write
           verdict |-> "none",    \* which check ended the invocation
           log |-> "none",        \* LOG_ERROR / LOG_WARN of the final checks
           srv_len |-> 0,         \* header length of the GET response
           skipped |-> 0,         \* bytes the header skip's read returned
           skip_read |-> 0 - 2,   \* what that SSL_read returned (-2: not made)
           prev |-> FALSE]        \* the invocation before was an interrupted
                                  \* download into an absent file

\* get_content_md5 is not being followed step by step.
NoDecoder == [pc |-> "idle"]

\* The header_size computation is not being followed.
NoEstimate == [pc |-> "idle"]

\* ------------------------------------------------------------------- Init
\* Contents of an output file that exists before the first invocation: empty,
\* foreign, or the first n bytes of the resource.
InitFiles == {<<>>, <<0>>} \cup {SubSeq(Body, 1, n) : n \in 1 .. body_len}

InitLocals ==
    /\ pc = "idle"
    /\ probe = 1
    /\ url = "orig"
    /\ response = EmptyResponse
    /\ content_md5 = <<>>
    /\ file_size = 0
    /\ downloaded_file_size = Val(0)
    /\ initial_downloaded_file_size = Val(0)
    /\ header_size = 0
    /\ bytes_read = Val(0)
    /\ read_buffer = <<>>
    /\ progress_state = DefaultProgressState
    /\ progress_callback = FALSE
    /\ result = FALSE
    /\ sessions = <<>>
    /\ body_len \in 1 .. MaxBody
    /\ srv_hdr = 0
    /\ srv_pos = 0
    /\ srv_404 = FALSE
    /\ requests = <<>>
    /\ hist = NoHist

\* Two invocations of download_file with the same URL and output path, the
\* output file absent before the first, and no failing read.
InitResume ==
    /\ InitLocals
    /\ decoder = NoDecoder
    /\ estimate = NoEstimate
    /\ again = TRUE
    /\ read_errors = MaxReadErrors
    /\ file_exists = FALSE
    /\ file_data = <<>>

\* One invocation of download_file, on any output file.
Init ==
    /\ InitLocals
    /\ decoder = NoDecoder
    /\ estimate = NoEstimate
    /\ again = FALSE
    /\ read_errors = 0
    /\ file_exists \in BOOLEAN
    /\ file_data \in (IF file_exists THEN InitFiles ELSE {<<>>})

\* ---------------------------------------------------------------- actions
\* A request built with the Range pair whatever the offset.
InitRequest_RangeAlways(u, method, dl, ok) ==
    [method |-> method, url |-> u, range |-> <<dl>>, sent |-> ok]

\* One call of init(): the request it builds (the Range pair only when
\* downloaded_file_size > 0) and whether it was sent (a session was returned).
InitRequest(u, method, dl, ok) ==
    [method |-> method, url |-> u,
     range |-> IF dl > 0 THEN <<dl>> ELSE <<>>, sent |-> ok]

\* file.seekg(0, end); file.tellg() when the output file can be opened
StatSize(exists, data) == IF exists THEN Size(data) ELSE 0

\* A redirect that leaves the url as it was.
RedirectUrl_Keep(u, r) == u

\* url = match[1]: the Location URL replaces the url.
RedirectUrl(u, r) == "redir"

\* A redirect followed at every probe.
FollowsRedirect_Always(p, r) == Has302(r)

\* if (response.find("HTTP/1.1 302 Found") != npos) after the first probe only
FollowsRedirect(p, r) == p = 1 /\ Has302(r)

\* What one SSL_read(ssl, buf, n) can return: a byte count, 0, or -1.
ReadResults(n) ==
    ReadSizes(n, StreamAvail) \cup {0}
        \cup (IF read_errors < MaxReadErrors THEN {-1} ELSE {})

\* The previous invocation started from an absent file and was stopped by
\* the control signal, before end-of-stream, after appending the first
\* N >= 1 bytes of the resource.
InterruptedFirst ==
    /\ pc = "returned"
    /\ ~hist.file0_exists
    /\ hist.cb_stop
    /\ ~hist.eos
    /\ hist.read_failed = "no"
    /\ file_exists
    /\ file_data # <<>>
    /\ hist.written = file_data
    /\ Len(file_data) <= body_len
    /\ file_data = SubSeq(Body, 1, Len(file_data))

locals == <<probe, url, response, content_md5, file_size, downloaded_file_size,
            initial_downloaded_file_size, header_size, bytes_read,
            read_buffer, progress_state>>
disk == <<file_exists, file_data>>
server == <<body_len, srv_hdr, srv_pos, srv_404>>

\* download_file(url, output_file_path, progress_callback) is entered.
Call ==
    /\ UNCHANGED <<decoder, estimate>>
    /\ pc = "idle" \/ (pc = "returned" /\ again)
    /\ again' = (again /\ pc = "idle")
    /\ pc' = "head"
    /\ result' = FALSE
    /\ probe' = 1
    /\ url' = "orig"
    /\ response' = EmptyResponse
    /\ content_md5' = <<>>
    /\ file_size' = 0
    /\ downloaded_file_size' = Val(0)
    /\ initial_downloaded_file_size' = Val(0)
    /\ header_size' = 0
    /\ bytes_read' = Val(0)
    /\ read_buffer' = <<>>
    /\ progress_state' = DefaultProgressState
    /\ progress_callback' \in BOOLEAN
    /\ sessions' = <<>>
    /\ requests' = <<>>
    /\ srv_hdr' = 0
    /\ srv_pos' = 0
    /\ srv_404' = FALSE
    /\ hist' = [NoHist EXCEPT !.file0_exists = file_exists,
                              !.file0_data = file_data,
                              !.prev = InterruptedFirst]
    /\ UNCHANGED <<file_exists, file_data, body_len, read_errors>>

\* get_web_response(url, "HEAD"): init().  No session: it returns {} and
\* download_file returns false.
HeadInit ==
    /\ UNCHANGED <<decoder, estimate>>
    /\ pc = "head"
    /\ \E f \in InitReturns : LET ok == init(f).session IN
        IF ok
        THEN /\ requests' = Append(requests, InitRequest(url, "HEAD", 0, TRUE))
             /\ sessions' = OpenSession(sessions, "HEAD")
             /\ pc' = "head_recv"
             /\ hist' = [hist EXCEPT !.init = init(f)]
             /\ UNCHANGED <<response, result>>
        ELSE /\ requests' = Append(requests, InitRequest(url, "HEAD", 0, FALSE))
             /\ response' = EmptyResponse
             /\ pc' = "returned"
             /\ result' = FALSE
             /\ hist' = [hist EXCEPT !.verdict = "probe", !.init = init(f)]
             /\ UNCHANGED sessions
    /\ UNCHANGED <<again, probe, url, content_md5, file_size,
                   downloaded_file_size, initial_downloaded_file_size,
                   header_size, bytes_read,
                   read_buffer, progress_state, progress_callback,
                   disk, server, read_errors>>

\* get_web_response: the read loop up to end-of-stream, the teardown and the
\* 404 check; then download_file's checks of the response up to the next
\* request (empty, redirect).
HeadRecv ==
    /\ UNCHANGED <<decoder, estimate>>
    /\ pc = "head_recv"
    /\ \E r \in Responses :
        LET resp == IF Has404(r) THEN EmptyResponse ELSE r
            h1 == [hist EXCEPT !.probe404 = @ \/ r.status = 404,
                               !.resp_probe = probe]
        IN  /\ sessions' = CloseSession(sessions)
            /\ response' = resp
            /\ IF resp = EmptyResponse
               THEN /\ pc' = "returned"
                    /\ result' = FALSE
                    /\ hist' = [h1 EXCEPT !.verdict = "probe"]
                    /\ UNCHANGED <<url, probe>>
               ELSE IF FollowsRedirect(probe, resp)
               THEN IF HasLocation(resp)
                    THEN /\ url' = RedirectUrl(url, resp)
                         /\ probe' = 2
                         /\ pc' = "head"
                         /\ hist' = [h1 EXCEPT !.redir = "loc"]
                         /\ UNCHANGED result
                    ELSE /\ pc' = "returned"
                         /\ result' = FALSE
                         /\ hist' = [h1 EXCEPT !.redir = "noloc",
                                               !.verdict = "redirect"]
                         /\ UNCHANGED <<url, probe>>
               ELSE /\ pc' = "meta"
                    /\ hist' = h1
                    /\ UNCHANGED <<url, probe, result>>
    /\ UNCHANGED <<again, content_md5, file_size, downloaded_file_size,
                   initial_downloaded_file_size, header_size, bytes_read,
                   read_buffer,
                   progress_state, progress_callback, disk, server, requests,
                   read_errors>>

\* get_web_response: SSL_read returns -1; std::string(data, -1) throws
\* std::length_error, which leaves get_web_response and download_file.
HeadRecvFail ==
    /\ UNCHANGED <<decoder, estimate>>
    /\ pc = "head_recv"
    /\ read_errors < MaxReadErrors
    /\ read_errors' = read_errors + 1
    /\ pc' = "threw"
    /\ hist' = [hist EXCEPT !.read_failed = "probe"]
    /\ UNCHANGED <<again, locals, progress_callback, result, sessions, disk,
                   server, requests>>

\* The 404 check, get_content_md5, get_file_size and the stat of the output
\* file.
Metadata ==
    /\ UNCHANGED <<decoder, estimate>>
    /\ pc = "meta"
    /\ LET md5 == get_content_md5(response)
            fs == get_file_size(response)
            h1 == [hist EXCEPT !.meta = TRUE]
        IN  IF Has404(response)
            THEN /\ pc' = "returned"
                 /\ result' = FALSE
                 /\ hist' = [h1 EXCEPT !.verdict = "probe"]
                 /\ UNCHANGED <<content_md5, file_size, downloaded_file_size>>
            ELSE IF md5 = <<>>
            THEN /\ content_md5' = md5
                 /\ pc' = "returned"
                 /\ result' = FALSE
                 /\ hist' = [h1 EXCEPT !.verdict = "meta"]
                 /\ UNCHANGED <<file_size, downloaded_file_size>>
            ELSE IF fs = 0
            THEN /\ content_md5' = md5
                 /\ file_size' = fs
                 /\ pc' = "returned"
                 /\ result' = FALSE
                 /\ hist' = [h1 EXCEPT !.verdict = "meta"]
                 /\ UNCHANGED downloaded_file_size
            ELSE /\ content_md5' = md5
                 /\ file_size' = fs
                 /\ downloaded_file_size' = Val(StatSize(file_exists, file_data))
                 /\ pc' = "get_init"
                 /\ hist' = h1
                 /\ UNCHANGED result
    /\ UNCHANGED <<again, probe, url, response, initial_downloaded_file_size,
                   header_size, bytes_read,
                   read_buffer, progress_state, progress_callback,
                   sessions, disk, server, requests, read_errors>>

\* init(url, "GET", downloaded_file_size) and the header size estimate.  The
\* server answers with a header of srv_hdr bytes followed by the resource
\* from the requested offset on (a 404 answer has no resource bytes).
GetInit ==
    /\ UNCHANGED <<decoder, estimate>>
    /\ pc = "get_init"
    /\ \E f \in InitReturns : LET ok == init(f).session IN
        IF ok
        THEN LET hs == HeaderEstimate(response.len, downloaded_file_size.n, file_size)
             IN  /\ requests' = Append(requests,
                        InitRequest(url, "GET", downloaded_file_size.n, TRUE))
                 /\ sessions' = OpenSession(sessions, "GET")
                 /\ header_size' = hs
                 /\ \E delta \in (0 - HdrSlack) .. HdrSlack, nf \in BOOLEAN :
                        /\ nf => delta = 0
                        /\ srv_hdr' = hs + delta
                        /\ srv_404' = nf
                        /\ srv_pos' = IF nf THEN body_len
                                      ELSE Min(downloaded_file_size.n, body_len)
                        /\ hist' = [hist EXCEPT !.srv_len = hs + delta,
                                                !.init = init(f)]
                 /\ pc' = "skip"
                 /\ UNCHANGED result
        ELSE /\ requests' = Append(requests,
                    InitRequest(url, "GET", downloaded_file_size.n, FALSE))
             /\ pc' = "returned"
             /\ result' = FALSE
             /\ hist' = [hist EXCEPT !.verdict = "get_init", !.init = init(f)]
             /\ UNCHANGED <<sessions, header_size, srv_hdr, srv_404, srv_pos>>
    /\ UNCHANGED <<again, probe, url, response, content_md5, file_size,
                   downloaded_file_size, initial_downloaded_file_size,
                   bytes_read,
                   read_buffer, progress_state, progress_callback, disk,
                   body_len, read_errors>>

\* init() of a probe or of the GET with SSL_new returning null: SSL_set_fd
\* and SSL_connect dereference the null SSL object and the process ends.
InitCrash ==
    /\ UNCHANGED <<decoder, estimate>>
    /\ pc \in {"head", "get_init"}
    /\ init("ssl_new").null_deref
    /\ pc' = "crashed"
    /\ hist' = [hist EXCEPT !.init = init("ssl_new")]
    /\ UNCHANGED <<again, locals, progress_callback, result, sessions, disk,
                   server, requests, read_errors>>

\* The counter value a read result takes in uint32_t bytes_read.
AsU32(k) == IF k < 0 THEN ErrVal ELSE Val(k)

\* The first SSL_read of the GET stream (the header skip), the 404 check, the
\* 99% check, and the opening of the output file in append mode.
HeaderSkip ==
    /\ UNCHANGED <<decoder, estimate>>
    /\ pc = "skip"
    /\ \E k \in ReadResults(header_size) :
        LET br == AsU32(k)
            got == IF k > 0 THEN k ELSE 0
            found404 == srv_404 /\ got >= MarkerLen
            h1 == [hist EXCEPT
                     !.read_failed = IF k < 0 THEN "skip" ELSE @,
                     !.eos = @ \/ k = 0,
                     !.skipped = got,
                     !.skip_read = k]
        IN  /\ bytes_read' = br
            /\ read_buffer' = IF k > 0 THEN StreamChunk(k) ELSE read_buffer
            /\ Consume(got)
            /\ read_errors' = IF k < 0 THEN read_errors + 1 ELSE read_errors
            /\ IF found404 \/ HeaderShort(br, header_size)
               THEN /\ sessions' = CloseSession(sessions)
                    /\ pc' = "returned"
                    /\ result' = FALSE
                    /\ hist' = [h1 EXCEPT !.verdict =
                                  IF found404 THEN "get404" ELSE "header"]
                    /\ UNCHANGED <<file_exists, initial_downloaded_file_size,
                                   progress_state>>
               ELSE /\ file_exists' = TRUE
                    /\ initial_downloaded_file_size' = downloaded_file_size
                    /\ progress_state' = DefaultProgressState
                    /\ pc' = "loop"
                    /\ hist' = [h1 EXCEPT !.outfile = TRUE,
                                          !.outfile_open = TRUE,
                                          !.start_time = "open"]
                    /\ UNCHANGED <<sessions, result>>
    /\ UNCHANGED <<again, probe, url, response, content_md5, file_size,
                   downloaded_file_size, header_size, progress_callback,
                   file_data, body_len, srv_404, requests>>

\* The 404 check builds std::string(read_buffer.data()), which scans for a NUL
\* byte.  A read that fills all header_size bytes of the buffer leaves no NUL
\* in it, and the scan runs beyond the buffer: besides the outcome of
\* HeaderSkip (the scan stops on a nearby NUL and finds no marker), it can
\* find the marker in foreign memory (the 404 return) or end the process.
HeaderSkipOverrun ==
    /\ UNCHANGED <<decoder, estimate>>
    /\ pc = "skip"
    /\ header_size \in ReadResults(header_size)
    /\ bytes_read' = Val(header_size)
    /\ read_buffer' = StreamChunk(header_size)
    /\ Consume(header_size)
    /\ \E crash \in BOOLEAN :
        IF crash
        THEN /\ pc' = "crashed"
             /\ hist' = [hist EXCEPT !.skipped = header_size,
                                     !.skip_read = header_size]
             /\ UNCHANGED <<sessions, result>>
        ELSE /\ sessions' = CloseSession(sessions)
             /\ pc' = "returned"
             /\ result' = FALSE
             /\ hist' = [hist EXCEPT !.skipped = header_size,
                                     !.skip_read = header_size,
                                     !.verdict = "get404"]
    /\ UNCHANGED <<again, probe, url, response, content_md5, file_size,
                   downloaded_file_size, initial_downloaded_file_size,
                   header_size, progress_state, progress_callback, disk,
                   body_len, srv_404, requests, read_errors>>

\* if (progress_callback) progress_state = progress_callback(...)
\* inside the loop: the answers the callback can give.
CallbackAnswers(cb, ps) == IF cb THEN ProgressStates ELSE {ps}

\* A loop that invokes the callback only for a chunk it has written.
IterationCalls_PerChunk(cb, wrote) == IF cb /\ wrote THEN 1 ELSE 0

\* if (progress_callback) progress_state = progress_callback(...) at the end
\* of the loop body: the invocations one iteration makes, whether or not the
\* iteration wrote a chunk.
IterationCalls(cb, wrote) == IF cb THEN 1 ELSE 0

\* A reset call that is never made.
ResetCalls_Never(cb) == 0

\* if (progress_callback) progress_state = progress_callback(0, 0): the number
\* of invocations made after the loop.
ResetCalls(cb) == IF cb THEN 1 ELSE 0

\* progress_state = progress_callback(0, 0): the answers to the reset call
\* (its pause flag is never read again and is left clear).
ResetAnswers(cb, ps) ==
    IF cb THEN {a \in ProgressStates : ~a.pause} ELSE {ps}

\* Which conjunct of the loop condition was false when the loop was left.
LoopExit(ps, br) ==
    IF ps.download THEN "eos"
    ELSE IF br = Val(0) THEN "both" ELSE "stop"

\* The loop is left with signal ps and read result br: outfile.close(),
\* close_ssl, close_socket, and the callback's reset call
\* progress_callback(0, 0).  h is the history up to the last iteration.
Finalize(ps, br, h) ==
    /\ sessions' = CloseSession(sessions)
    /\ progress_state' \in ResetAnswers(progress_callback, ps)
    /\ pc' = "verify"
    /\ hist' = [h EXCEPT
             !.exit = LoopExit(ps, br),
             !.outfile_open = FALSE,
             !.resets = @ + ResetCalls(progress_callback),
             !.cb_last = IF ResetCalls(progress_callback) > 0
                         THEN "reset" ELSE "none",
             !.reset_closed =
                 /\ ResetCalls(progress_callback) > 0
                 /\ \A i \in 1 .. Len(sessions') : ~sessions'[i].open]

\* The end of an iteration that left signal ps and read result br: the loop
\* condition is evaluated again; the loop goes on, or is left.
EndIteration(ps, br, h) ==
    IF LoopCond(ps, br)
    THEN /\ pc' = "loop"
         /\ progress_state' = ps
         /\ hist' = h
         /\ UNCHANGED sessions
    ELSE Finalize(ps, br, h)

\* One iteration of the body-stream loop with pause clear: SSL_read, write,
\* the counter, the callback, and the loop condition evaluated again.
LoopRead ==
    /\ UNCHANGED <<decoder, estimate>>
    /\ pc = "loop"
    /\ LoopCond(progress_state, bytes_read)
    /\ ~Paused(progress_state)
    /\ \E k \in ReadResults(header_size) :
       \E ps \in CallbackAnswers(IterationCalls(progress_callback, k # 0) > 0,
                                 progress_state) :
        LET br == AsU32(k)
            got == IF k > 0 THEN k ELSE 0
            \* what outfile.write(read_buffer.data(), bytes_read) appends:
            \* the chunk, or, for bytes_read = 2^32 - 1, what the buffer
            \* still holds from the read before, then the memory behind it
            chunk == IF k > 0 THEN StreamChunk(k)
                     ELSE IF k < 0 THEN Cat(read_buffer, <<0>>) ELSE <<>>
        IN  /\ bytes_read' = br
            /\ read_buffer' = IF k > 0 THEN StreamChunk(k) ELSE read_buffer
            /\ Consume(got)
            /\ read_errors' = IF k < 0 THEN read_errors + 1 ELSE read_errors
            /\ file_data' = Cat(file_data, chunk)
            /\ downloaded_file_size' =
                   IF k = 0 THEN downloaded_file_size
                   ELSE Plus(downloaded_file_size, br)
            /\ EndIteration(ps, br, [hist EXCEPT
                     !.read_failed = IF k < 0 THEN "loop" ELSE @,
                     !.eos = @ \/ k = 0,
                     !.written = Cat(@, chunk),
                     !.delivered = Cat(@, IF k > 0 THEN StreamChunk(k) ELSE <<>>),
                     !.cb_stop = @ \/ ~ps.download,
                     !.cb_pause = @ \/ ps.pause,
                     !.ticks = @ \/ progress_callback,
                     !.cb_last = IF progress_callback THEN "loop" ELSE "none",
                     !.iter_calls = IterationCalls(progress_callback, k # 0),
                     !.tick_after_reset = @ \/ (progress_callback /\ hist.resets > 0),
                     !.progress_percent =
                         IF progress_callback /\ k # 0
                         THEN Plus(downloaded_file_size, br) ELSE @,
                     !.first_read_written =
                         @ \/ (k < 0 /\ hist.skipped > 0 /\ hist.delivered = <<>>)])
    /\ UNCHANGED <<again, probe, url, response, content_md5, file_size,
                   initial_downloaded_file_size, header_size,
                   progress_callback, result, file_exists, body_len,
                   srv_404, requests>>

\* The write of 2^32 - 1 bytes from a buffer of header_size bytes may also
\* end the process.
LoopReadCrash ==
    /\ UNCHANGED <<decoder, estimate>>
    /\ pc = "loop"
    /\ LoopCond(progress_state, bytes_read)
    /\ ~Paused(progress_state)
    /\ read_errors < MaxReadErrors
    /\ read_errors' = read_errors + 1
    /\ bytes_read' = ErrVal
    /\ pc' = "crashed"
    /\ hist' = [hist EXCEPT !.read_failed = "loop", !.cb_last = "none",
                            !.iter_calls = 0]
    /\ UNCHANGED <<again, read_buffer, probe, url, response, content_md5, file_size,
                   downloaded_file_size, initial_downloaded_file_size,
                   header_size, progress_state, progress_callback, result,
                   sessions, disk, server, requests>>

\* One iteration with pause set: the sleep, the reset of the ETA baseline, the
\* callback, and the loop condition evaluated again.
LoopPause ==
    /\ UNCHANGED <<decoder, estimate>>
    /\ pc = "loop"
    /\ LoopCond(progress_state, bytes_read)
    /\ Paused(progress_state)
    /\ initial_downloaded_file_size' = downloaded_file_size
    /\ \E ps \in CallbackAnswers(IterationCalls(progress_callback, FALSE) > 0,
                                 progress_state) :
        EndIteration(ps, bytes_read,
                    [hist EXCEPT !.cb_stop = @ \/ ~ps.download,
                                !.cb_pause = @ \/ ps.pause,
                                !.resumed = @ \/ ~ps.pause,
                                !.ticks = @ \/ progress_callback,
                                !.iter_calls =
                                    IterationCalls(progress_callback, FALSE),
                                !.cb_last = IF progress_callback
                                            THEN "pause" ELSE "none",
                                !.start_time = "pause",
                                !.tick_after_reset =
                                    @ \/ (progress_callback /\ hist.resets > 0)])
    /\ UNCHANGED <<again, probe, url, response, content_md5, file_size,
                   downloaded_file_size, header_size, bytes_read, read_buffer,
                   progress_callback, result, disk, server, requests,
                   read_errors>>

\* Verdict without the comparison of the file's MD5 with content_md5.
Verdict_NoMd5(dl, fs, file_md5, md5) ==
    IF SizeShort(dl, fs) THEN "size" ELSE "ok"

\* Verdict without the size check.
Verdict_NoSize(dl, fs, file_md5, md5) ==
    IF file_md5 # md5 THEN "md5" ELSE "ok"

\* Verdict with the MD5 comparison made before the size check.
Verdict_Md5First(dl, fs, file_md5, md5) ==
    IF file_md5 # md5 THEN "md5"
    ELSE IF SizeShort(dl, fs) THEN "size"
    ELSE "ok"

\* The checks after the loop, in the order of the code: the size check, then
\* the comparison of the file's MD5 with content_md5.
Verdict(dl, fs, file_md5, md5) ==
    IF SizeShort(dl, fs) THEN "size"
    ELSE IF file_md5 # md5 THEN "md5"
    ELSE "ok"

\* download_file returns after the loop: the locals of the loop end with the
\* frame (the values the verdict was taken from are kept for inspection).
PopFrame ==
    /\ bytes_read' = Val(0)
    /\ read_buffer' = <<>>
    /\ initial_downloaded_file_size' = Val(0)
    /\ progress_state' = DefaultProgressState

\* The size check and the MD5 check; fs::remove on a mismatch; the return.
Verify ==
    /\ UNCHANGED <<decoder, estimate>>
    /\ pc = "verify"
    /\ pc' = "returned"
    /\ LET v == Verdict(downloaded_file_size, file_size,
                        calculate_md5_file(file_exists, file_data), content_md5)
       IN  /\ result' = (v = "ok")
           /\ hist' = [hist EXCEPT
                    !.verdict = v,
                    !.cb_last = "none",
                    !.iter_calls = 0,
                    !.log = IF v = "size"
                            THEN (IF progress_state.download THEN "error" ELSE "warn")
                            ELSE IF v = "md5" THEN "error" ELSE "none"]
           /\ IF v = "md5"
              THEN file_exists' = FALSE /\ file_data' = <<>>
              ELSE UNCHANGED disk
    /\ PopFrame
    /\ UNCHANGED <<again, probe, url, response, content_md5, file_size,
                   downloaded_file_size, header_size, progress_callback,
                   sessions, server, requests, read_errors>>

Next ==
    \/ Call
    \/ HeadInit
    \/ HeadRecv
    \/ HeadRecvFail
    \/ Metadata
    \/ GetInit
    \/ InitCrash
    \/ HeaderSkip
    \/ HeaderSkipOverrun
    \/ LoopRead
    \/ LoopReadCrash
    \/ LoopPause
    \/ Verify

Spec == Init /\ [][Next]_vars

NextResume ==
    \/ Call
    \/ HeadInit
    \/ HeadRecv
    \/ Metadata
    \/ GetInit
    \/ HeaderSkip
    \/ HeaderSkipOverrun
    \/ LoopRead
    \/ LoopPause
    \/ Verify

SpecResume == InitResume /\ [][NextResume]_vars

\* ------------------------------------------- get_content_md5, step by step
\* MD5_DIGEST_LENGTH of <openssl/md5.h>: unsigned char md5_bytes[16]
MD5_DIGEST_LENGTH == 16

\* Longest captured Content-MD5 value that is followed.
MaxValueLen == 24

\* const std::string base64_chars
base64_chars ==
    <<"A", "B", "C", "D", "E", "F", "G", "H",
      "I", "J", "K", "L", "M", "N", "O", "P",
      "Q", "R", "S", "T", "U", "V", "W", "X",
      "Y", "Z", "a", "b", "c", "d", "e", "f",
      "g", "h", "i", "j", "k", "l", "m", "n",
      "o", "p", "q", "r", "s", "t", "u", "v",
      "w", "x", "y", "z", "0", "1", "2", "3",
      "4", "5", "6", "7", "8", "9", "+", "/">>

\* The characters the capture ([-A-Za-z0-9+/=]+) accepts.
PatternChars ==
    {base64_chars[k] : k \in 1 .. Len(base64_chars)} \cup {"-", "="}

\* base64_chars.find(c): the position counted from 0; Len(base64_chars)
\* stands for std::string::npos.
Find(c) ==
    IF \E k \in 1 .. Len(base64_chars) : base64_chars[k] = c
    THEN (CHOOSE k \in 1 .. Len(base64_chars) : base64_chars[k] = c) - 1
    ELSE Len(base64_chars)

RECURSIVE Pow2(_)
Pow2(k) == IF k = 0 THEN 1 ELSE 2 * Pow2(k - 1)

\* uint32_t accum as two 16-bit halves.
U32(hi, lo) == [hi |-> hi, lo |-> lo]

\* static_cast<uint32_t>(accum << 6) | char_value, for char_value < 64
ShiftIn(accum, char_value) ==
    U32(((accum.hi * 64) % 65536) + ((accum.lo * 64) \div 65536),
        ((accum.lo * 64) % 65536) + char_value)

\* static_cast<unsigned char>((accum >> bits) & 0xFF), for bits < 16
TakeByte(accum, bits) ==
    (((accum.hi % Pow2(bits)) * Pow2(16 - bits)) + (accum.lo \div Pow2(bits)))
        % 256

\* md5_bytes before anything is stored in it: every element indeterminate.
Indeterminate == 0 - 1
FreshBuffer == [k \in 1 .. MD5_DIGEST_LENGTH |-> Indeterminate]

HexDigits ==
    <<"0", "1", "2", "3", "4", "5", "6", "7",
      "8", "9", "A", "B", "C", "D", "E", "F">>

\* sprintf(.., "%02X", b)
Sprintf02X(b) == <<HexDigits[(b \div 16) + 1], HexDigits[(b % 16) + 1]>>

RECURSIVE BytesToStr(_)
\* convert_md5_bytes_to_str over the bytes themselves: two characters for
\* each of the MD5_DIGEST_LENGTH elements.
BytesToStr(md5_bytes) ==
    IF md5_bytes = <<>> THEN <<>>
    ELSE Sprintf02X(Head(md5_bytes)) \o BytesToStr(Tail(md5_bytes))

\* Values an element of md5_bytes that was never stored may be read as.
StackBytes == {0, 204, 255}

\* n copies of c, the p-th replaced by s (none for p = 0), then pad '='.
Value(n, c, p, s, pad) ==
    [k \in 1 .. (n + pad) |-> IF k > n THEN "=" ELSE IF k = p THEN s ELSE c]

\* The captured values that are followed.
Md5Values ==
    {Value(n, c, p, s, pad) :
        n \in 0 .. MaxValueLen, c \in {"A", "q", "/"}, p \in 0 .. MaxValueLen,
        s \in {"-", "="}, pad \in 0 .. 2} \ {<<>>}

\* get_content_md5 after the capture: content_md5_base64 = match[1].
StartDecoder(v) ==
    [pc |-> "loop", value |-> v, rest |-> v, md5_bytes |-> FreshBuffer,
     i |-> 0, accum |-> U32(0, 0), accum_bits |-> 0,
     beyond |-> 0,          \* stores made past the end of md5_bytes
     failed |-> FALSE,      \* left through "Invalid character"
     out |-> <<>>]

InitDecoder ==
    /\ InitLocals
    /\ body_len = 1
    /\ again = FALSE
    /\ read_errors = 0
    /\ file_exists = FALSE
    /\ file_data = <<>>
    /\ estimate = NoEstimate
    /\ \E v \in Md5Values : decoder = StartDecoder(v)

\* md5_bytes[i++] = b: inside the array the element is stored; past its end
\* the store lands in other memory of the frame.
StoreByte(d, b) ==
    IF d.i < MD5_DIGEST_LENGTH
    THEN [d EXCEPT !.md5_bytes[d.i + 1] = b, !.i = d.i + 1]
    ELSE [d EXCEPT !.i = d.i + 1, !.beyond = d.beyond + 1]

\* One pass of the loop body over the character c.
DecodeChar(d, c) ==
    IF c = "="
    THEN d
    ELSE IF Find(c) = Len(base64_chars)
    THEN [d EXCEPT !.pc = "returned", !.failed = TRUE, !.out = <<>>]
    ELSE LET acc == ShiftIn(d.accum, Find(c))
             bits == d.accum_bits + 6
             d1 == [d EXCEPT !.accum = acc, !.accum_bits = bits]
         IN  IF bits >= 8
             THEN StoreByte([d1 EXCEPT !.accum_bits = bits - 8],
                            TakeByte(acc, bits - 8))
             ELSE d1

\* The pass over c stores past the end of md5_bytes.
StoresBeyond(d, c) == DecodeChar(d, c).beyond > d.beyond

\* for (const auto c : content_md5_base64) { ... }: one character.
Md5Char ==
    /\ decoder.pc = "loop"
    /\ decoder.rest # <<>>
    /\ decoder' = DecodeChar([decoder EXCEPT !.rest = Tail(decoder.rest)],
                             Head(decoder.rest))
    /\ UNCHANGED <<pc, again, probe, url, response, content_md5, file_size,
                   downloaded_file_size, initial_downloaded_file_size,
                   header_size, bytes_read, read_buffer, progress_state,
                   progress_callback, result, sessions, file_exists,
                   file_data, server, requests, read_errors, hist, estimate>>

\* The store past the end of md5_bytes ends the process.
Md5Smash ==
    /\ decoder.pc = "loop"
    /\ decoder.rest # <<>>
    /\ StoresBeyond(decoder, Head(decoder.rest))
    /\ decoder' = [decoder EXCEPT !.pc = "crashed"]
    /\ UNCHANGED <<pc, again, probe, url, response, content_md5, file_size,
                   downloaded_file_size, initial_downloaded_file_size,
                   header_size, bytes_read, read_buffer, progress_state,
                   progress_callback, result, sessions, file_exists,
                   file_data, server, requests, read_errors, hist, estimate>>

\* return convert_md5_bytes_to_str(md5_bytes): an element never stored is
\* read as whatever the frame holds.
Md5Render ==
    /\ decoder.pc = "loop"
    /\ decoder.rest = <<>>
    /\ \E g \in StackBytes :
        decoder' = [decoder EXCEPT
            !.pc = "returned",
            !.out = BytesToStr([k \in 1 .. MD5_DIGEST_LENGTH |->
                        IF decoder.md5_bytes[k] = Indeterminate THEN g
                        ELSE decoder.md5_bytes[k]])]
    /\ UNCHANGED <<pc, again, probe, url, response, content_md5, file_size,
                   downloaded_file_size, initial_downloaded_file_size,
                   header_size, bytes_read, read_buffer, progress_state,
                   progress_callback, result, sessions, file_exists,
                   file_data, server, requests, read_errors, hist, estimate>>

NextDecoder ==
    \/ Md5Char
    \/ Md5Smash
    \/ Md5Render

SpecDecoder == InitDecoder /\ [][NextDecoder]_vars

\* ------------------------------------------- the header_size computation
\* A size_t: four 16-bit limbs, the least significant first.
SizeT(n) == <<n % 65536, n \div 65536, 0, 0>>

RECURSIVE AddLimbs(_, _, _)
\* a + b + carry over the limbs, the carry out of the last limb dropped
AddLimbs(a, b, carry) ==
    IF a = <<>> THEN <<>>
    ELSE LET t == Head(a) + Head(b) + carry
         IN  <<t % 65536>> \o AddLimbs(Tail(a), Tail(b), t \div 65536)

\* size_t a + b
Add(a, b) == AddLimbs(a, b, 0)

\* A subtraction that stops at zero instead of wrapping.
Sub_Saturating(a, b) ==
    LET Below(x, y) ==
            \E k \in 1 .. 4 : x[k] < y[k] /\ \A j \in (k + 1) .. 4 : x[j] = y[j]
    IN  IF Below(a, b) THEN <<0, 0, 0, 0>>
        ELSE AddLimbs(a, [k \in 1 .. 4 |-> 65535 - b[k]], 1)

\* size_t a - b: a plus the two's complement of b, modulo 2^64
Sub(a, b) == AddLimbs(a, [k \in 1 .. 4 |-> 65535 - b[k]], 1)

\* The size_t holds a value that wrapped below zero or beyond what any
\* buffer can hold: one of its upper limbs is set.
Wrapped(a) == a[3] # 0 \/ a[4] # 0

RECURSIVE to_string(_)
\* std::to_string(n), and "{}" of fmt::format: the decimal digits of n
to_string(n) ==
    IF n < 10 THEN <<HexDigits[n + 1]>>
    ELSE to_string(n \div 10) \o <<HexDigits[(n % 10) + 1]>>

\* fmt::format("\r\nContent-Range: bytes {}-{}/{}\r\n", dl, fs, fs)
ContentRangeLine(dl, fs) ==
    <<"\r", "\n", "C", "o", "n", "t", "e", "n", "t", "-", "R", "a", "n",
      "g", "e", ":", " ", "b", "y", "t", "e", "s", " ">>
        \o to_string(dl) \o <<"-">> \o to_string(fs) \o <<"/">> \o to_string(fs)
        \o <<"\r", "\n">>

\* header_size as lines 405-412 compute it, in size_t arithmetic.
header_size_t(resp_len, dl, fs) ==
    IF dl > 0
    THEN LET content_range_length == SizeT(Len(ContentRangeLine(dl, fs)))
         IN  Add(SizeT(resp_len),
                 Sub(Add(SizeT(StatusLineDiff), content_range_length),
                     Sub(SizeT(Len(to_string(fs))), SizeT(Len(to_string(dl))))))
    ELSE SizeT(resp_len)

\* Sizes of the output file and of the resource that are followed.
Sizes == {1, 9, 10, 99, 100, 9999, 10000, 1234567, 999999999, 2147483647}

\* The operands: response.length(), downloaded_file_size, file_size.
InitEstimate ==
    /\ InitLocals
    /\ body_len = 1
    /\ again = FALSE
    /\ read_errors = 0
    /\ file_exists = FALSE
    /\ file_data = <<>>
    /\ decoder = NoDecoder
    /\ \E len \in {HeadLen, 65535 + HeadLen} :
       \E dl \in {0} \cup Sizes : \E fs \in Sizes :
        estimate = [pc |-> "operands", response_length |-> len,
                    downloaded_file_size |-> dl, file_size |-> fs,
                    header_size |-> SizeT(0)]

\* auto header_size = response.length(); if (downloaded_file_size > 0) ...
Estimate ==
    /\ estimate.pc = "operands"
    /\ estimate' = [estimate EXCEPT
            !.pc = "done",
            !.header_size = header_size_t(estimate.response_length,
                                          estimate.downloaded_file_size,
                                          estimate.file_size)]
    /\ UNCHANGED <<pc, again, probe, url, response, content_md5, file_size,
                   downloaded_file_size, initial_downloaded_file_size,
                   header_size, bytes_read, read_buffer, progress_state,
                   progress_callback, result, sessions, file_exists,
                   file_data, server, requests, read_errors, hist, decoder>>

NextEstimate == Estimate

SpecEstimate == InitEstimate /\ [][NextEstimate]_vars

\* ------------------------------------------------------------- properties
\* No GET request was built in this invocation.
NoGet == \A i \in 1 .. Len(requests) : requests[i].method # "GET"

\* The output file is as it was when download_file was entered.
DiskUntouched ==
    /\ file_exists = hist.file0_exists
    /\ file_data = hist.file0_data

\* The GET stream was read up to a genuine end-of-stream: every header and
\* body byte was handed out, then a read returned 0.
StreamComplete == hist.eos /\ StreamAvail = 0

\* The response used for the metadata declares the resource's length and
\* digest.
ValidMetadata ==
    /\ response.md5 = [kind |-> "valid", d |-> Md5(Body)]
    /\ response.cl = [kind |-> "value", n |-> body_len]

C2_ValidDownloadSucceeds ==
    (/\ pc = "returned"
     /\ ValidMetadata
     /\ ~hist.file0_exists
     /\ hist.srv_len = header_size
     /\ ~srv_404
     /\ hist.read_failed = "no"
     /\ StreamComplete
     /\ ~hist.cb_stop
     /\ ~hist.cb_pause)
        => (result /\ file_exists /\ file_data = Body)

\* The same with the header skip's read returning the whole header: the case
\* in which the download does succeed.
C2_SucceedsWhenHeaderReadWhole ==
    (/\ pc = "returned"
     /\ ValidMetadata
     /\ ~hist.file0_exists
     /\ hist.srv_len = header_size
     /\ hist.skipped = header_size
     /\ ~srv_404
     /\ hist.read_failed = "no"
     /\ StreamComplete
     /\ ~hist.cb_stop
     /\ ~hist.cb_pause)
        => (result /\ file_exists /\ file_data = Body)

\* C3: a first invocation into an absent file is stopped by the control
\* signal after N body bytes were appended; a second invocation with the same
\* URL and output path gets valid metadata and reads its stream (whose header
\* is as long as estimated) to end-of-stream without being stopped: the output
\* file is then the resource, byte for byte, as after one uninterrupted
\* download.
C3_ResumeIdempotent ==
    (/\ pc = "returned"
     /\ hist.prev
     /\ ValidMetadata
     /\ hist.srv_len = header_size
     /\ ~srv_404
     /\ StreamComplete
     /\ ~hist.cb_stop)
        => (file_exists /\ file_data = Body)

\* The same with the header skip's read of the second invocation returning
\* the whole header.
C3_IdempotentWhenHeaderReadWhole ==
    (/\ pc = "returned"
     /\ hist.prev
     /\ ValidMetadata
     /\ hist.srv_len = header_size
     /\ hist.skipped = header_size
     /\ ~srv_404
     /\ StreamComplete
     /\ ~hist.cb_stop)
        => (file_exists /\ file_data = Body)

\* What the output file holds if nothing but this invocation's appends
\* touched it.
Appended == Cat(hist.file0_data, hist.written)

\* The output file was at the path during the invocation and is gone.
Deleted == ~file_exists /\ (hist.file0_exists \/ hist.outfile)

\* The output file, with every byte appended to it, is in place.
LeftInPlace ==
    /\ file_exists = (hist.file0_exists \/ hist.outfile)
    /\ file_data = Appended

\* C4: whenever the probe response used for the metadata lacks a
\* Content-Length (or declares a non-numeric or zero one) or lacks a
\* Content-MD5, download_file returns false without a GET stream and with the
\* output file neither created, appended to nor deleted.
C4_MissingMetadataIsTerminal ==
    (/\ hist.meta
     /\ \/ response.cl.kind # "value"
        \/ response.cl.n = 0
        \/ response.md5.kind = "absent")
        => (pc = "returned" /\ ~result /\ NoGet /\ DiskUntouched)

\* A probe response with a Content-MD5 and no Content-Length, met with the
\* output file already on disk.
C4_Witness ==
    /\ pc = "returned"
    /\ hist.meta
    /\ response.cl.kind = "absent"
    /\ response.md5.kind = "valid"
    /\ hist.file0_exists
    /\ hist.file0_data # <<>>

\* C5: a HEAD probe (the initial one or the one after a redirect) answered
\* with 404 makes download_file return false, with no GET stream opened and
\* the output file neither created nor modified.
C5_Probe404IsTerminal ==
    hist.probe404 => (pc = "returned" /\ ~result /\ NoGet /\ DiskUntouched)

\* The probe after a redirect is answered with 404 while a partial file is on
\* disk.
C5_Witness ==
    /\ hist.probe404
    /\ hist.redir = "loc"
    /\ hist.file0_exists
    /\ hist.file0_data # <<>>

\* The HEAD requests built in this invocation.
HeadRequests == {i \in 1 .. Len(requests) : requests[i].method = "HEAD"}

\* C6: a 302 with a Location causes exactly one re-probe, a HEAD against the
\* Location URL (never a third probe); a 302 without a parseable Location
\* makes download_file return false with no further request; without a
\* redirect there is one probe.  (An invocation in which the process died
\* inside init() is left aside.)
C6_ExactlyOneReprobe ==
    /\ Cardinality(HeadRequests) <= 2
    /\ hist.redir = "none" => Cardinality(HeadRequests) <= 1
    /\ (hist.redir = "loc" /\ pc \notin {"head", "crashed"}) =>
          /\ HeadRequests = {1, 2}
          /\ requests[1].url = "orig"
          /\ requests[2].url = "redir"
    /\ hist.redir = "noloc" =>
          (pc = "returned" /\ ~result /\ Len(requests) = 1)

\* A download that succeeds through a redirect whose target answers the
\* re-probe.
C6_Witness ==
    /\ pc = "returned"
    /\ result
    /\ hist.redir = "loc"
    /\ Len(requests) = 3

\* The final checks found the size sufficient and the file's digest different
\* from the declared one.
ChecksumMismatch ==
    /\ hist.outfile
    /\ ~SizeShort(downloaded_file_size, file_size)
    /\ calculate_md5_file(TRUE, Appended) # content_md5

\* C7: on a false return the output file is deleted if and only if the
\* checksum mismatch was found after the size check passed; on every other
\* false return the file and every byte appended to it are in place.
C7_DeletedIffChecksumMismatch ==
    (pc = "returned" /\ ~result) =>
        /\ Deleted <=> ChecksumMismatch
        /\ ~ChecksumMismatch => LeftInPlace

\* A resumed download whose appended bytes complete a file with the wrong
\* digest: the file, old bytes included, is deleted.
C7_Witness ==
    /\ pc = "returned"
    /\ ~result
    /\ hist.file0_exists
    /\ hist.file0_data # <<>>
    /\ hist.written # <<>>
    /\ ChecksumMismatch
    /\ Deleted

\* C8: when pause was set and later cleared during the body-stream loop, the
\* bytes appended to the output file are exactly the bytes the stream
\* delivered, in order, each once.
C8_PauseLosesNothing ==
    hist.resumed =>
        /\ hist.written = hist.delivered
        /\ (file_exists => file_data = Cat(hist.file0_data, hist.delivered))

\* The same for the invocations in which no read fails.
C8_PauseLosesNothingWhenReadsSucceed ==
    (hist.resumed /\ hist.read_failed = "no") =>
        /\ hist.written = hist.delivered
        /\ (file_exists => file_data = Cat(hist.file0_data, hist.delivered))

\* C9: every session opened during download_file is torn down exactly once
\* and none is open once download_file has been left, by a return or by an
\* exception.
C9_SessionsTornDownOnce ==
    /\ \A i \in 1 .. Len(sessions) : sessions[i].closes <= 1
    /\ pc \in {"returned", "threw"} =>
          \A i \in 1 .. Len(sessions) :
              ~sessions[i].open /\ sessions[i].closes = 1

\* The same for the exits by a return statement only.
C9_TornDownOnEveryReturn ==
    /\ \A i \in 1 .. Len(sessions) : sessions[i].closes <= 1
    /\ pc = "returned" =>
          \A i \in 1 .. Len(sessions) :
              ~sessions[i].open /\ sessions[i].closes = 1

\* C10: after a failed read (in a probe, the header skip or the body-stream
\* loop) download_file ends by returning false, and the failed read appends
\* nothing to the output file and adds nothing to the downloaded-size
\* counter.
C10_FailedReadIsTerminal ==
    hist.read_failed # "no" =>
        /\ pc \notin {"threw", "crashed"}
        /\ pc = "returned" => ~result
        /\ hist.written = hist.delivered
        /\ downloaded_file_size.e = 0

\* C11: whenever the body-stream loop is left because the callback answered
\* download = false, download_file returns false, whatever had been
\* downloaded; stated for the invocations in which every read succeeded and
\* the output file holds the resource at return (so that no failed read and
\* no digest collision is involved).
C11_CancelReturnsFalse ==
    (/\ pc = "returned"
     /\ hist.exit = "stop"
     /\ hist.read_failed = "no"
     /\ file_exists
     /\ file_data = Body) => ~result

\* C11 as amended: a loop left because the callback answered download = false
\* with the downloaded-size counter short of 99% of the expected size makes
\* download_file return false and leaves the file in place; with the counter
\* at 99% or more the MD5 comparison decides the result, as it does after an
\* end-of-stream.
C11_CancelShortReturnsFalse ==
    (pc = "returned" /\ hist.exit = "stop") =>
        /\ SizeShort(downloaded_file_size, file_size) =>
              (~result /\ file_exists /\ file_data = Appended)
        /\ ~SizeShort(downloaded_file_size, file_size) =>
              (result <=> calculate_md5_file(TRUE, Appended) = content_md5)

\* A download cancelled after its first chunk, short of the expected size.
C11_Witness ==
    /\ pc = "returned"
    /\ hist.exit = "stop"
    /\ ~hist.file0_exists
    /\ hist.written # <<>>
    /\ SizeShort(downloaded_file_size, file_size)
    /\ ~result

\* C12: in an invocation with a callback that entered the body-stream loop
\* the callback is invoked with (0, 0) exactly once, with the output file and
\* the session closed, before the size check, and no invocation follows it;
\* an invocation that failed before the loop, or has no callback, invokes
\* nothing.
C12_ResetCalledOnce ==
    /\ hist.resets <= 1
    /\ ~hist.tick_after_reset
    /\ (hist.outfile /\ progress_callback /\ pc \in {"verify", "returned"}) =>
          (hist.resets = 1 /\ hist.reset_closed /\ ~hist.outfile_open)
    /\ (hist.resets = 1 /\ pc # "returned") =>
          (pc = "verify" /\ hist.verdict = "none")
    /\ pc = "loop" => hist.resets = 0
    /\ (~hist.outfile \/ ~progress_callback) => (hist.resets = 0 /\ ~hist.ticks)

\* A download with a callback that was invoked inside the loop and then once
\* with (0, 0), and that returned after the size check.
C12_Witness ==
    /\ pc = "returned"
    /\ progress_callback
    /\ hist.ticks
    /\ hist.resets = 1
    /\ hist.verdict = "size"

\* The counter value a exceeds x.
Exceeds(a, x) == a.e > 0 \/ a.n > x

\* C13: every percentComplete passed to the callback lies in 0..100, that is,
\* the downloaded-size counter it is computed from is at most the expected
\* total size; stated for the invocations in which no read failed.
C13_PercentWithinRange ==
    (hist.ticks /\ hist.read_failed = "no") =>
        ~Exceeds(hist.progress_percent, file_size)

\* The same for the invocations in which the stream's header is as long as
\* estimated and the header skip's read returned all of it.
C13_PercentWithinRangeWhenHeaderReadWhole ==
    (/\ hist.ticks
     /\ hist.read_failed = "no"
     /\ hist.srv_len = header_size
     /\ hist.skipped = header_size) =>
        ~Exceeds(hist.progress_percent, file_size)

\* The Range header a GET of this invocation has to carry: the size the
\* output file had when download_file was entered, if it existed and was not
\* empty.
ExpectedRange ==
    IF hist.file0_exists /\ Size(hist.file0_data) > 0
    THEN <<Size(hist.file0_data)>>
    ELSE <<>>

\* C14: the GET request carries Accept-Ranges / Range: bytes=<n>- if and only
\* if the output file existed at call start with size n > 0; a HEAD probe
\* never carries a Range header.
C14_RangeIffResume ==
    \A i \in 1 .. Len(requests) :
        /\ requests[i].method = "HEAD" => requests[i].range = <<>>
        /\ requests[i].method = "GET" => requests[i].range = ExpectedRange

\* A GET sent with a Range header for a partial file.
C14_Witness ==
    /\ hist.file0_exists
    /\ \E i \in 1 .. Len(requests) :
          /\ requests[i].method = "GET"
          /\ requests[i].sent
          /\ requests[i].range = <<Size(hist.file0_data)>>
          /\ requests[i].range # <<0>>

\* The URL and the probe an invocation has to use after its redirect check.
FinalUrl == IF hist.redir = "loc" THEN "redir" ELSE "orig"
FinalProbe == IF hist.redir = "loc" THEN 2 ELSE 1

\* C15: after a 302 with a Location the metadata come from the re-probe's
\* response and the GET goes to the redirected URL; without a redirect both
\* use the original URL and the first response.
C15_RedirectedUrlAndMetadata ==
    /\ hist.meta =>
          /\ hist.resp_probe = FinalProbe
          /\ url = FinalUrl
          /\ requests[Cardinality(HeadRequests)].url = FinalUrl
          /\ content_md5 \in {<<>>, get_content_md5(response)}
          /\ file_size \in {0, get_file_size(response)}
    /\ \A i \in 1 .. Len(requests) :
          requests[i].method = "GET" =>
              /\ requests[i].url = FinalUrl
              /\ content_md5 = get_content_md5(response)
              /\ file_size = get_file_size(response)

\* A download through a redirect: the GET went to the redirected URL and the
\* file passed the checks against the re-probe's metadata.
C15_Witness ==
    /\ pc = "returned"
    /\ result
    /\ hist.redir = "loc"
    /\ hist.resp_probe = 2
    /\ Len(requests) = 3
    /\ requests[3].method = "GET"
    /\ requests[3].url = "redir"

\* C16: the requests of one invocation are, in order, one HEAD, at most one
\* further HEAD (only after a 302 with a Location), and at most one GET (only
\* after the checksum and the size were extracted); nothing follows a request
\* that failed, and at most three sessions are opened.
C16_RequestOrder ==
    /\ Len(requests) <= 3
    /\ Len(sessions) <= 3
    /\ Len(sessions) = Cardinality({i \in 1 .. Len(requests) : requests[i].sent})
    /\ \A i \in 1 .. Len(requests) :
          /\ i = 1 => requests[i].method = "HEAD"
          /\ (i > 1 /\ requests[i].method = "HEAD") =>
                (i = 2 /\ hist.redir = "loc")
          /\ requests[i].method = "GET" =>
                /\ i = Len(requests)
                /\ hist.meta
                /\ response.md5.kind = "valid"
                /\ response.cl.kind = "value"
                /\ response.cl.n > 0
          /\ ~requests[i].sent => i = Len(requests)
    /\ (pc = "returned" /\ ~result /\ Len(requests) > 0
            /\ ~requests[Len(requests)].sent) => hist.verdict \in {"probe", "get_init"}

\* An invocation that issued all three requests: probe, re-probe, GET.
C16_Witness ==
    /\ pc = "returned"
    /\ Len(requests) = 3
    /\ Len(sessions) = 3
    /\ requests[2].method = "HEAD"
    /\ requests[3].method = "GET"

\* The header skip's read returned a byte count short of 99% of header_size,
\* or bytes that hold the 404 marker.
SkipRejected ==
    /\ hist.skip_read >= 0
    /\ \/ 100 * hist.skip_read < 99 * header_size
       \/ srv_404 /\ hist.skip_read >= MarkerLen

\* A rejected header skip closes the session and returns false with the
\* output file neither opened, created nor appended to (in a process that
\* outlives the 404 check).
SkipRejectedIsTerminal ==
    (SkipRejected /\ pc # "crashed") =>
        /\ pc = "returned"
        /\ ~result
        /\ \A i \in 1 .. Len(sessions) : ~sessions[i].open
        /\ ~hist.outfile
        /\ DiskUntouched

\* C17: a header skip whose read is short of 99% of the estimate or holds the
\* 404 marker closes the session and returns false without touching the
\* output file; otherwise the bytes of that read are discarded and none of
\* them is written to the output file.
C17_HeaderSkipDiscardsFirstRead ==
    /\ SkipRejectedIsTerminal
    /\ ~hist.first_read_written

\* The same for the invocations in which no read fails.
C17_HeaderSkipWhenReadsSucceed ==
    /\ SkipRejectedIsTerminal
    /\ hist.read_failed = "no" => ~hist.first_read_written

\* The session was not read and the output file not written in this step.
NoReadNoAppend ==
    UNCHANGED <<srv_hdr, srv_pos, read_errors, read_buffer, bytes_read,
                downloaded_file_size, file_exists, file_data>>

\* C18: while the last control signal has pause and download set, no read is
\* made and nothing is appended; every loop iteration made in that state
\* resets the ETA baseline (start time and downloaded-bytes baseline) and
\* invokes the callback again.
C18_PausedIterationIdles ==
    [][(pc = "loop" /\ progress_state.pause /\ progress_state.download) =>
          /\ NoReadNoAppend
          /\ initial_downloaded_file_size' = downloaded_file_size
          /\ hist'.start_time = "pause"
          /\ hist'.ticks
          /\ hist'.written = hist.written
          /\ pc' = "loop" => hist'.cb_last = "pause"
          /\ pc' # "loop" => (~progress_state'.pause /\ hist'.cb_stop)]_vars

\* A download resumed after a pause iteration and completed.
C18_Witness ==
    /\ pc = "returned"
    /\ result
    /\ hist.start_time = "pause"
    /\ hist.resumed
    /\ ~hist.file0_exists

\* C19: once a callback invocation in the loop has answered download = false,
\* the session is not read and the output file not appended to any more, and
\* the only callback invocation that follows is the (0, 0) one made when the
\* loop is left.
C19_NothingAfterStop ==
    [][hist'.cb_stop =>
          IF ~hist.cb_stop
          THEN \* the iteration whose callback invocation answered: the loop
               \* is left and the (0, 0) invocation made
               /\ pc = "loop"
               /\ pc' = "verify"
               /\ hist'.cb_last = "reset"
               /\ hist'.resets = hist.resets + 1
          ELSE /\ pc \in {"verify", "returned"}
               /\ UNCHANGED <<srv_hdr, srv_pos, read_errors,
                              downloaded_file_size>>
               /\ hist'.delivered = hist.delivered
               /\ hist'.written = hist.written
               /\ hist'.cb_last = "none"
               /\ hist'.resets = hist.resets
               /\ file_data' = file_data \/ (pc = "verify" /\ ~file_exists')]_vars

\* A download cancelled with pause set as well, after a chunk was written.
C19_Witness ==
    /\ pc = "returned"
    /\ hist.cb_stop
    /\ hist.cb_pause
    /\ hist.exit = "stop"
    /\ hist.written # <<>>
    /\ hist.resets = 1

\* download_file returned from the size check: the loop was left and the
\* counter is short of 99% of the expected size.
ReturnedSizeShort ==
    /\ pc = "returned"
    /\ hist.outfile
    /\ SizeShort(downloaded_file_size, file_size)

\* C20: a final size short of 99% of the expected total is reported as a
\* user cancellation (LOG_WARN) if and only if the loop ended because the
\* signal said stop, and as a short transfer (LOG_ERROR) if and only if it
\* ended at end-of-stream with the signal still saying continue, whatever the
\* (0, 0) invocation returned.  (An end-of-stream and a stop that arrive in
\* the same iteration are left aside.)
C20_ClassifiedByLoopExit ==
    ReturnedSizeShort =>
        /\ hist.exit = "stop" => hist.log = "warn"
        /\ hist.exit = "eos" => hist.log = "error"

\* What the code does: the answer of the (0, 0) invocation, when there is a
\* callback, decides the report.
C20_ClassifiedByLastAnswer ==
    [][(pc = "verify" /\ ReturnedSizeShort') =>
          /\ hist'.log = "warn" <=> ~progress_state.download
          /\ hist'.log = "error" <=> progress_state.download
          /\ ~progress_callback => (hist'.log = "error" /\ hist.exit = "eos")]_vars
\* A loop step read the session: bytes were consumed, the read failed, or it
\* reported the end of the stream.
ReadMade ==
    \/ <<srv_hdr, srv_pos>>' # <<srv_hdr, srv_pos>>
    \/ read_errors' # read_errors
    \/ bytes_read' = Val(0)

\* What every iteration of the loop does with the signal: the read is made
\* exactly when the signal of the latest invocation has pause clear, the
\* invocation that follows a write is handed the percentage of the counter
\* that includes the chunk, and the loop goes on exactly when the answer says
\* continue and the read returned bytes.
IterationUsesLatestSignal ==
    /\ ReadMade <=> ~progress_state.pause
    /\ (hist'.written # hist.written /\ progress_callback) =>
          hist'.progress_percent = downloaded_file_size'
    /\ pc' = "loop" =>
          (progress_state'.download /\ bytes_read' # Val(0) /\ ~hist'.cb_stop)
    /\ pc' = "verify" => (hist'.cb_stop \/ bytes_read' = Val(0))

\* C21 as stated: during the body-stream loop the callback is invoked once
\* per streamed chunk, so that the invocations made inside the loop are as
\* many as the chunks appended to the output file (iteration by iteration:
\* an iteration invokes the callback exactly when it appends a chunk); each
\* invocation follows the chunk's write and precedes the next read, and the
\* next read is decided by the signal of the latest invocation.  (Stated for
\* the invocations in which no read has failed.)
C21_SampledOncePerChunk ==
    [][(pc = "loop" /\ progress_callback /\ hist'.read_failed = "no") =>
          /\ hist'.iter_calls = 1 <=> hist'.written # hist.written
          /\ IterationUsesLatestSignal]_vars

\* C21, amended: the callback is invoked exactly once per loop iteration,
\* whether the iteration appended a chunk, was idle because pause is set, or
\* read the end of the stream; so the invocations are as many as the
\* iterations and not fewer than the chunks.  The invocation follows the
\* iteration's write and precedes the next read, and the next read is decided
\* by the signal of the latest invocation.
C21_SampledOncePerIteration ==
    [][(pc = "loop" /\ pc' # "crashed") =>
          /\ hist'.iter_calls = (IF progress_callback THEN 1 ELSE 0)
          /\ hist'.written # hist.written => ~progress_state.pause
          /\ IterationUsesLatestSignal]_vars

\* A download that was paused, resumed, and then streamed to the end of the
\* stream: iterations with and without a chunk were made.
C21_Witness ==
    /\ pc = "returned"
    /\ progress_callback
    /\ hist.resumed
    /\ hist.eos
    /\ hist.written # <<>>
    /\ hist.read_failed = "no"
\* a < b on the counters
Less(a, b) == a.e < b.e \/ (a.e = b.e /\ a.n < b.n)

\* downloaded_file_size - initial_downloaded_file_size in uint64_t, as the
\* double downloaded_bytes: zero, positive, or the wrapped difference.
DownloadedBytes(dl, base) ==
    IF dl = base THEN "zero"
    ELSE IF Less(dl, base) THEN "wrapped" ELSE "positive"

\* file_size - downloaded_file_size in uint64_t, as the double
\* remaining_bytes: the difference, or its wrapped value when the counter
\* is above file_size.
RemainingBytes(fs, dl) == IF Exceeds(dl, fs) THEN "wrapped" ELSE "exact"

\* The step is a loop iteration that evaluated the ETA: a callback is present
\* and SSL_read returned a nonzero value.
EtaEvaluated ==
    /\ pc = "loop"
    /\ pc' # "crashed"
    /\ progress_callback
    /\ hist'.written # hist.written

\* C22: at every ETA evaluation the bytes downloaded in this session
\* (counter minus baseline) are strictly positive, also for the first chunk
\* after a pause reset the baseline, and the remaining bytes (expected total
\* minus counter, unsigned) do not wrap below zero.  (Stated for the
\* invocations in which no read has failed.)
C22_EtaOperandsInRange ==
    [][(EtaEvaluated /\ hist'.read_failed = "no") =>
          /\ DownloadedBytes(downloaded_file_size',
                             initial_downloaded_file_size') = "positive"
          /\ RemainingBytes(file_size, downloaded_file_size') = "exact"]_vars

\* The half of C22 the code keeps, failed reads included: the divisor of the
\* ETA is strictly positive at every evaluation.
C22_SessionBytesPositive ==
    [][EtaEvaluated =>
          DownloadedBytes(downloaded_file_size',
                          initial_downloaded_file_size') = "positive"]_vars

\* The remaining bytes do not wrap when the header skip consumed the whole
\* header and no read failed.
C22_NoWrapWhenHeaderReadWhole ==
    [][(/\ EtaEvaluated
        /\ hist'.read_failed = "no"
        /\ hist.srv_len = header_size
        /\ hist.skipped = header_size) =>
          RemainingBytes(file_size, downloaded_file_size') = "exact"]_vars
\* The callback lifts a pause: the paused iteration whose invocation answers
\* with pause clear.
Resume == LoopPause /\ ~progress_state'.pause

\* download_file runs on one thread and no step of it waits for another
\* party except the reads and the callback: every read returns, and the
\* callback does not answer pause = true forever.
SpecLive == Init /\ [][Next]_vars /\ WF_vars(Next) /\ WF_vars(Resume)

\* C23: if every read returns, the stream reports its end and the callback
\* does not keep pause set forever, every invocation of download_file
\* eventually returns a boolean.  (An invocation in which the process died
\* is left aside.)
C23_EventuallyReturns == <>(pc \in {"returned", "crashed"})

\* What the code keeps of C23: every invocation eventually leaves
\* download_file, by a return, by the exception of a failed probe read, or
\* by the death of the process.
C23_EventuallyLeaves == <>(pc \in {"returned", "threw", "crashed"})
\* The secure sessions open in download_file.
OpenSessions == {i \in 1 .. Len(sessions) : sessions[i].open}

\* C24: init() either returns a session whose socket is connected, whose
\* handshake completed and whose request was sent, holding the socket and
\* the SSL object, or returns no session and holds nothing; after a failed
\* resolve, connect, connection check, handshake or send the socket, and the
\* SSL object if it was created, are released before the return.  The caller
\* gets a session exactly in the first case.
C24_InitAllOrNothing ==
    (hist.init.fail # "not_called" /\ pc # "crashed") =>
        /\ hist.init.session =>
              /\ hist.init.held = {"socket", "ssl"}
              /\ hist.init.connected
              /\ hist.init.handshaken
              /\ hist.init.sent
              /\ sessions # <<>>
        /\ ~hist.init.session =>
              /\ hist.init.held = {}
              /\ OpenSessions = {}
              /\ pc = "returned" /\ ~result

\* The handshake of the GET session failed after the probe had succeeded.
C24_Witness ==
    /\ hist.init.fail = "handshake"
    /\ Acquired("handshake") = {"ctx", "socket", "addrinfo", "ssl"}
    /\ hist.verdict = "get_init"
    /\ pc = "returned"
\* C25: at any moment of a download_file invocation at most one secure
\* session is open, and it is the one opened last: a probe's session is
\* closed before the next probe or the GET session is opened, and the GET
\* session is closed before the (0, 0) invocation of the callback, the size
\* check and the hashing of the output file.
C25_AtMostOneSessionOpen ==
    /\ Cardinality(OpenSessions) <= 1
    /\ OpenSessions \subseteq {Len(sessions)}
    /\ pc \in {"head", "meta", "get_init", "verify"} => OpenSessions = {}
    /\ hist.resets > 0 => (hist.reset_closed /\ OpenSessions = {})
    /\ hist.verdict \in {"size", "md5", "ok"} => OpenSessions = {}

\* A download through a redirect has opened and closed three sessions and
\* made the (0, 0) invocation; the size check is still to come.
C25_Witness ==
    /\ pc = "verify"
    /\ Len(sessions) = 3
    /\ OpenSessions = {}
    /\ hist.resets = 1
\* C26: download_file is invoked when the output file already holds the
\* complete resource, the metadata is valid, and the GET stream (whose header
\* is as long as estimated) is read to its end without a failed read: the
\* call returns true, appends nothing and leaves the file as it was.
C26_CompleteFileIsKept ==
    (/\ pc = "returned"
     /\ ValidMetadata
     /\ hist.file0_exists
     /\ hist.file0_data = Body
     /\ hist.srv_len = header_size
     /\ ~srv_404
     /\ hist.read_failed = "no"
     /\ StreamComplete)
        => (result /\ hist.written = <<>> /\ file_exists /\ file_data = Body)

\* The same with the header skip's read returning the whole header: the case
\* in which the complete file is kept.
C26_KeptWhenHeaderReadWhole ==
    (/\ pc = "returned"
     /\ ValidMetadata
     /\ hist.file0_exists
     /\ hist.file0_data = Body
     /\ hist.srv_len = header_size
     /\ hist.skipped = header_size
     /\ ~srv_404
     /\ hist.read_failed = "no"
     /\ StreamComplete)
        => (result /\ hist.written = <<>> /\ file_exists /\ file_data = Body)

\* The complete file was met, the stream read to its end, and true returned.
C26_KeptReached ==
    /\ pc = "returned"
    /\ ValidMetadata
    /\ hist.file0_exists
    /\ hist.file0_data = Body
    /\ hist.skipped = header_size
    /\ StreamComplete
    /\ result

\* ----------------------------------------------------------------- C27
\* The characters of the value that the loop decodes (all but '=').
Decoded(v) == SelectSeq(v, LAMBDA c : c # "=")

\* The value holds a character that is neither '=' nor in base64_chars.
HasForeign(v) ==
    \E k \in 1 .. Len(v) : v[k] # "=" /\ Find(v[k]) = Len(base64_chars)

\* A string of 32 uppercase hexadecimal characters.
IsDigestString(str) ==
    /\ Len(str) = 2 * MD5_DIGEST_LENGTH
    /\ \A k \in 1 .. Len(str) :
        \E h \in 1 .. Len(HexDigits) : str[k] = HexDigits[h]

\* C27: for every captured Content-MD5 value, get_content_md5 either fails
\* (returns empty, on a character that is neither '=' nor in the base64
\* alphabet) or has stored exactly 16 decoded bytes in md5_bytes, which it
\* renders as 32 uppercase hexadecimal characters; it never stores a 17th
\* byte and never renders a digest from fewer than 16 decoded bytes.
C27_SixteenBytesOrFailure ==
    /\ decoder.pc \in {"loop", "returned"} =>
        (decoder.i <= MD5_DIGEST_LENGTH /\ decoder.beyond = 0)
    /\ decoder.pc = "returned" =>
        \/ /\ decoder.failed
           /\ decoder.out = <<>>
           /\ HasForeign(decoder.value)
        \/ /\ ~decoder.failed
           /\ ~HasForeign(decoder.value)
           /\ decoder.i = MD5_DIGEST_LENGTH
           /\ decoder.out = BytesToStr(decoder.md5_bytes)
           /\ IsDigestString(decoder.out)

\* The failure branch alone: get_content_md5 returns empty exactly for the
\* values that hold a foreign character.
C27_FailsOnForeignOnly ==
    decoder.pc = "returned" =>
        /\ decoder.failed <=> HasForeign(decoder.value)
        /\ decoder.failed <=> (decoder.out = <<>>)
        /\ ~decoder.failed => IsDigestString(decoder.out)

\* A value of 22 base64 characters (and any '=') is decoded into exactly the
\* 16 elements of md5_bytes and rendered from them.
C27_TwentyTwoCharacters ==
    (/\ decoder.pc = "returned"
     /\ ~HasForeign(decoder.value)
     /\ Len(Decoded(decoder.value)) = 22)
        => /\ decoder.i = MD5_DIGEST_LENGTH
           /\ decoder.beyond = 0
           /\ decoder.out = BytesToStr(decoder.md5_bytes)
           /\ IsDigestString(decoder.out)

\* The bytes stored are 3 * n \div 4 for n decoded characters.
C27_StoredCount ==
    (decoder.pc = "returned" /\ ~decoder.failed)
        => decoder.i = (3 * Len(Decoded(decoder.value))) \div 4

\* A digest rendered from fewer than 16 decoded bytes.
C27_RenderedShort ==
    /\ decoder.pc = "returned"
    /\ ~decoder.failed
    /\ decoder.i < MD5_DIGEST_LENGTH

\* A 17th byte stored, and the function returned all the same.
C27_StoredBeyond ==
    /\ decoder.pc = "returned"
    /\ decoder.beyond > 0

\* The standard form: 22 characters and "==".
C27_StandardDecoded ==
    /\ decoder.pc = "returned"
    /\ Len(decoder.value) = 24
    /\ Len(Decoded(decoder.value)) = 22
    /\ decoder.i = MD5_DIGEST_LENGTH
    /\ decoder.out = BytesToStr(decoder.md5_bytes)

\* ----------------------------------------------------------------- C28
\* The difference of the digit counts, as the size_t subtraction leaves it.
DigitDifference ==
    Sub(SizeT(Len(to_string(estimate.file_size))),
        SizeT(Len(to_string(estimate.downloaded_file_size))))

\* C28: the header estimate equals the HEAD response length when the resume
\* offset is 0; for an offset above 0 it equals the HEAD length + 13 + the
\* length of "\r\nContent-Range: bytes <offset>-<total>/<total>\r\n" -
\* (digits(total) - digits(offset)), which is the HEAD length + 40 +
\* 2 * digits(offset) + digits(total); the result has not wrapped around,
\* even when the offset has more decimal digits than the total.
C28_HeaderEstimate ==
    estimate.pc = "done" =>
        LET len == estimate.response_length
            dl == estimate.downloaded_file_size
            fs == estimate.file_size
        IN  /\ ~Wrapped(estimate.header_size)
            /\ dl = 0 => estimate.header_size = SizeT(len)
            /\ dl > 0 =>
                /\ estimate.header_size =
                    SizeT(len + 40 + (2 * Digits(dl)) + Digits(fs))
                /\ estimate.header_size =
                    SizeT(len + 13 + Len(ContentRangeLine(dl, fs))
                            - (Digits(fs) - Digits(dl)))
            /\ estimate.header_size = SizeT(HeaderEstimate(len, dl, fs))

\* The estimate was computed for an offset with more digits than the total:
\* the inner subtraction wrapped, the estimate did not.
C28_Witness ==
    /\ estimate.pc = "done"
    /\ estimate.downloaded_file_size > 0
    /\ Digits(estimate.downloaded_file_size) > Digits(estimate.file_size)
    /\ Wrapped(DigitDifference)
    /\ ~Wrapped(estimate.header_size)

====
